---- MODULE Spec2Model ----
(***************************************************************************)
(* Hanuman voice assistant (src/app.py): the command matcher, the mode     *)
(* state machine, the dual speech-to-text race, the two-provider reply      *)
(* synthesizer and the /upload request handler that chains them.            *)
(*                                                                          *)
(* Text is a sequence of one-character strings; a character outside ASCII   *)
(* is written "uXXXX" (its code point).  Python's None is the value None.   *)
(***************************************************************************)
EXTENDS Integers, Sequences, FiniteSets, TLC

(* ------------------------------ text ---------------------------------- *)

None == <<"<None>">>

Upper == <<"A","B","C","D","E","F","G","H","I","J","K","L","M",
           "N","O","P","Q","R","S","T","U","V","W","X","Y","Z">>

LowerAZ == <<"a","b","c","d","e","f","g","h","i","j","k","l","m",
             "n","o","p","q","r","s","t","u","v","w","x","y","z">>

\* str.lower() on one character
LowerChar(c) ==
    IF \E i \in 1..26 : Upper[i] = c
    THEN LowerAZ[CHOOSE i \in 1..26 : Upper[i] = c]
    ELSE c

\* str.lower()
Lower(s) == [i \in 1..Len(s) |-> LowerChar(s[i])]

IsSpace(c) == c \in {" ", "\t", "\n", "\r"}

\* str.strip()
Strip(s) ==
    IF \A i \in 1..Len(s) : IsSpace(s[i])
    THEN <<>>
    ELSE LET lo == CHOOSE i \in 1..Len(s) :
                       ~IsSpace(s[i]) /\ \A j \in 1..(i-1) : IsSpace(s[j])
             hi == CHOOSE i \in 1..Len(s) :
                       ~IsSpace(s[i]) /\ \A j \in (i+1)..Len(s) : IsSpace(s[j])
         IN  SubSeq(s, lo, hi)

\* str.capitalize(): first character upper-cased, the rest lower-cased
Capitalize(s) ==
    [i \in 1..Len(s) |->
        IF i = 1
        THEN IF \E k \in 1..26 : LowerAZ[k] = s[1]
             THEN Upper[CHOOSE k \in 1..26 : LowerAZ[k] = s[1]]
             ELSE s[1]
        ELSE LowerChar(s[i])]

\* k in s  (substring test)
Contains(k, s) ==
    \E i \in 0..(Len(s) - Len(k)) : SubSeq(s, i + 1, i + Len(k)) = k

\* bool(x) of a string or None
Truthy(x) == x # None /\ x # <<>>

(* ------------------------ command dictionary -------------------------- *)

\* declaration order of the dictionary keys
CommandOrder == <<"wake", "aagya", "hasya", "yudha", "gandharva", "khoj", "exit">>

VALID_COMMANDS ==
    [ wake |-> <<
          <<"h", "a", "n", "u", "m", "a", "n">>,
          <<"a", "n", "u", "m", "a", "n">>,
          <<"h", "u", "m", "a", "n">>,
          <<"n", "a", "m", "a", "n">>,
          <<"h", "e", "l", "l", "o", " ", "h", "a", "n", "u", "m", "a", "n">>,
          <<"h", "e", "y", " ", "h", "a", "n", "u", "m", "a", "n">>,
          <<"u0939", "u0928", "u0941", "u092E", "u093E", "u0928">>,
          <<"j", "a", "i", " ", "s", "h", "r", "i", " ", "r", "a", "m">> >>,
      aagya |-> <<
          <<"a", "a", "g", "y", "a">>,
          <<"c", "h", "a", "t">>,
          <<"t", "a", "l", "k">>,
          <<"a", "n", "y", "a">>,
          <<"b", "a", "t">>,
          <<"u0906", "u091C", "u094D", "u091E", "u093E">>,
          <<"b", "a", "a", "t">> >>,
      hasya |-> <<
          <<"h", "a", "s", "y", "a">>,
          <<"j", "o", "k", "e">>,
          <<"f", "u", "n", "n", "y">>,
          <<"l", "a", "u", "g", "h">>,
          <<"c", "h", "u", "t", "k", "u", "l", "e">>,
          <<"h", "a", "s", "a">>,
          <<"u0939", "u093E", "u0938", "u094D", "u092F">> >>,
      yudha |-> <<
          <<"y", "u", "d", "h", "a">>,
          <<"g", "a", "m", "e">>,
          <<"p", "l", "a", "y">>,
          <<"f", "i", "g", "h", "t">>,
          <<"w", "a", "r">>,
          <<"y", "u", "d", "a">>,
          <<"u092F", "u0941", "u0926", "u094D", "u0927">>,
          <<"k", "h", "e", "l">> >>,
      gandharva |-> <<
          <<"g", "a", "n", "d", "h", "a", "r", "v", "a">>,
          <<"m", "u", "s", "i", "c">>,
          <<"s", "o", "n", "g">>,
          <<"g", "a", "n", "a">>,
          <<"p", "l", "a", "y", " ", "s", "o", "n", "g">>,
          <<"d", "j">>,
          <<"u0917", "u0902", "u0927", "u0930", "u094D", "u0935">> >>,
      khoj |-> <<
          <<"k", "h", "o", "j">>,
          <<"s", "e", "a", "r", "c", "h">>,
          <<"f", "i", "n", "d">>,
          <<"g", "o", "o", "g", "l", "e">>,
          <<"d", "h", "o", "o", "n", "d", "o">>,
          <<"u0916", "u094B", "u091C">> >>,
      exit |-> <<
          <<"e", "x", "i", "t">>,
          <<"s", "t", "o", "p">>,
          <<"b", "a", "c", "k">>,
          <<"b", "y", "e">>,
          <<"b", "a", "n", "d">>,
          <<"r", "u", "k">>,
          <<"u092C", "u0902", "u0926">> >> ]

\* Python's None where a command tag is expected
NoCmd == "None"

\* a score is the exact fraction <<numerator, denominator>> of the float
ScoreOne  == <<1, 1>>
ScoreZero == <<0, 1>>

\* x > y on scores
ScoreGt(x, y) == x[1] * y[2] > y[1] * x[2]

\* line 70 with the threshold at 0.5
AboveHalf(x) == 2 * x[1] > x[2]

\* x > 0.65 on a score
AboveThreshold(x) == 100 * x[1] > 65 * x[2]

(* ------------------- difflib.SequenceMatcher.ratio -------------------- *)

RECURSIVE RunLen(_, _, _, _, _, _)
\* length of the common run a[i..] = b[j..] inside the windows ..ahi, ..bhi
RunLen(a, b, i, j, ahi, bhi) ==
    IF i > ahi \/ j > bhi THEN 0
    ELSE IF a[i] # b[j] THEN 0
    ELSE 1 + RunLen(a, b, i + 1, j + 1, ahi, bhi)

\* find_longest_match: the longest block, earliest in a, then earliest in b
find_longest_match(a, b, alo, ahi, blo, bhi) ==
    LET starts == (alo..ahi) \X (blo..bhi)
        size(p) == RunLen(a, b, p[1], p[2], ahi, bhi)
        sizes  == {size(p) : p \in starts}
        best   == IF sizes = {} THEN 0
                  ELSE CHOOSE k \in sizes : \A m \in sizes : m <= k
    IN  IF best = 0 THEN <<alo, blo, 0>>
        ELSE LET hits == {p \in starts : size(p) = best}
                 i == CHOOSE x \in {p[1] : p \in hits} :
                          \A y \in {p[1] : p \in hits} : x <= y
                 j == CHOOSE x \in {p[2] : p \in {q \in hits : q[1] = i}} :
                          \A y \in {p[2] : p \in {q \in hits : q[1] = i}} : x <= y
             IN  <<i, j, best>>

RECURSIVE MatchCount(_, _, _, _, _, _)
\* get_matching_blocks: total size of the blocks found by splitting around
\* the longest match and recursing to its left and to its right
MatchCount(a, b, alo, ahi, blo, bhi) ==
    LET m == find_longest_match(a, b, alo, ahi, blo, bhi)
        i == m[1]
        j == m[2]
        k == m[3]
    IN  IF k = 0 THEN 0
        ELSE k
             + (IF alo < i /\ blo < j
                THEN MatchCount(a, b, alo, i - 1, blo, j - 1) ELSE 0)
             + (IF i + k <= ahi /\ j + k <= bhi
                THEN MatchCount(a, b, i + k, ahi, j + k, bhi) ELSE 0)

\* SequenceMatcher(None, a, b).ratio() = 2.0 * matches / (len(a) + len(b))
Ratio(a, b) ==
    IF Len(a) + Len(b) = 0 THEN ScoreOne
    ELSE <<2 * MatchCount(a, b, 1, Len(a), 1, Len(b)), Len(a) + Len(b)>>

(* -------------------------- identify_command -------------------------- *)

\* the (tag, trigger phrase) pairs in the order the two loops visit them
RECURSIVE KeywordsFrom(_)
KeywordsFrom(c) ==
    IF c > Len(CommandOrder) THEN <<>>
    ELSE [n \in 1..Len(VALID_COMMANDS[CommandOrder[c]]) |->
              <<CommandOrder[c], VALID_COMMANDS[CommandOrder[c]][n]>>]
         \o KeywordsFrom(c + 1)

Keywords == KeywordsFrom(1)

\* pass 1 returning the last tag, in declaration order, with a phrase in the text
ExactMatchLast(text_lower) ==
    LET hit(c) == \E n \in 1..Len(VALID_COMMANDS[CommandOrder[c]]) :
                      Contains(VALID_COMMANDS[CommandOrder[c]][n], text_lower)
    IN  IF \E c \in 1..Len(CommandOrder) : hit(c)
        THEN CommandOrder[CHOOSE c \in 1..Len(CommandOrder) :
                              hit(c) /\ \A d \in (c + 1)..Len(CommandOrder) : ~hit(d)]
        ELSE NoCmd

\* pass 1: the first tag, in declaration order, with a trigger phrase in the text
ExactMatch(text_lower) ==
    LET hit(c) == \E n \in 1..Len(VALID_COMMANDS[CommandOrder[c]]) :
                      Contains(VALID_COMMANDS[CommandOrder[c]][n], text_lower)
    IN  IF \E c \in 1..Len(CommandOrder) : hit(c)
        THEN CommandOrder[CHOOSE c \in 1..Len(CommandOrder) :
                              hit(c) /\ \A d \in 1..(c - 1) : ~hit(d)]
        ELSE NoCmd

RECURSIVE FuzzyMatch(_, _, _, _)
\* pass 2: scan every trigger phrase, keeping the best score above 0.65
FuzzyMatch(text_lower, n, best_cmd, best_score) ==
    IF n > Len(Keywords) THEN <<best_cmd, best_score>>
    ELSE LET score == Ratio(Keywords[n][2], text_lower)
         IN  IF AboveThreshold(score) /\ ScoreGt(score, best_score)
             THEN FuzzyMatch(text_lower, n + 1, Keywords[n][1], score)
             ELSE FuzzyMatch(text_lower, n + 1, best_cmd, best_score)

identify_command(txt) ==
    IF ~Truthy(txt) THEN <<NoCmd, ScoreZero>>
    ELSE LET text_lower == Strip(Lower(txt))
             cmd == ExactMatch(text_lower)
         IN  IF cmd # NoCmd THEN <<cmd, ScoreOne>>
             ELSE FuzzyMatch(text_lower, 1, NoCmd, ScoreZero)

(* ----------------------------- bounds --------------------------------- *)

\* the clock int(time.time()) runs from 0 to MaxTime
MaxTime == 1

\* concurrent requests (threads of the server)
Requests == {"r1", "r2"}

Models == {"turbo", "large"}

\* the recordings uploaded while several requests run at once
ConcurrentClips == {1, 2, 11}

\* what the provider would transcribe from a recording, per model
\* (temperature 0.0: the transcript is a function of the recording and the model)
Clips == <<
    \* wake, heard alike by both models
    [turbo |-> <<"h", "e", "y", " ", "h", "a", "n", "u", "m", "a", "n">>,
     large |-> <<"H", "e", "y", " ", "H", "a", "n", "u", "m", "a", "n">>],
    \* exit for turbo; large hears a longer text without a command
    [turbo |-> <<" ", "S", "t", "o", "p", " ">>,
     large |-> <<"o", "h", " ", "n", "o">>],
    \* aagya
    [turbo |-> <<"c", "h", "a", "t">>,
     large |-> <<"c", "h", "a", "t">>],
    \* hasya for turbo, yudha for large
    [turbo |-> <<"j", "o", "k", "e">>,
     large |-> <<"p", "l", "a", "y", " ", "s", "o", "n", "g">>],
    \* both gandharva and yudha phrases: yudha is declared first
    [turbo |-> <<"p", "l", "a", "y", " ", "s", "o", "n", "g">>,
     large |-> <<"p", "l", "a", "y", " ", "s", "o", "n", "g">>],
    \* gandharva
    [turbo |-> <<"m", "u", "s", "i", "c">>,
     large |-> <<"m", "u", "s", "i", "c">>],
    \* khoj
    [turbo |-> <<"s", "e", "a", "r", "c", "h">>,
     large |-> <<"s", "e", "a", "r", "c", "h">>],
    \* no command, large longer
    [turbo |-> <<"u", "h">>,
     large |-> <<"o", "h", " ", "n", "o">>],
    \* no command, turbo longer
    [turbo |-> <<"o", "h", " ", "n", "o">>,
     large |-> <<"u", "h">>],
    \* no command, equal lengths
    [turbo |-> <<"u", "h">>,
     large |-> <<"e", "h">>],
    \* silence: both models emit a filler
    [turbo |-> <<"y", "o", "u">>,
     large |-> <<"T", "h", "a", "n", "k", " ", "y", "o", "u">>],
    \* an exit phrase that is also a filler
    [turbo |-> <<"b", "y", "e">>,
     large |-> <<"B", "y", "e">>],
    \* command heard by large only, in the shorter text
    [turbo |-> <<"o", "h", " ", "n", "o">>,
     large |-> <<"s", "t", "o", "p">>] >>

\* message.content values the language model may return
LLMContents == { <<" ", "O", "k", ".", " ">>, <<" ">> }

\* line 96: transcripts the provider emits on silence
Fillers == { <<"y", "o", "u">>, <<"t", "h", "a", "n", "k", " ", "y", "o", "u">>, <<"b", "y", "e">>, <<"a", "m", " ", "i">>, <<"m", "b", "c", " ", "n", "e", "w", "s">> }

Str_Stopping == <<"S", "t", "o", "p", "p", "i", "n", "g", ".">>
Str_Greeting == <<"J", "a", "i", " ", "S", "h", "r", "i", " ", "R", "a", "m", ".", " ", "I", " ", "a", "m", " ", "r", "e", "a", "d", "y", ".">>
Str_Mode     == <<" ", "m", "o", "d", "e", ".">>
Str_Offline  == <<"S", "y", "s", "t", "e", "m", " ", "o", "f", "f", "l", "i", "n", "e", ".">>
Str_NoAudio  == <<"N", "o", " ", "a", "u", "d", "i", "o">>

\* the characters of the dictionary keys that name a mode
TagChars == [ aagya |-> <<"a", "a", "g", "y", "a">>,
             hasya |-> <<"h", "a", "s", "y", "a">>,
             yudha |-> <<"y", "u", "d", "h", "a">>,
             gandharva |-> <<"g", "a", "n", "d", "h", "a", "r", "v", "a">>,
             khoj |-> <<"k", "h", "o", "j">> ]

SwitchTags == {"aagya", "hasya", "yudha", "gandharva", "khoj"}
Modes == {"idle", "active"} \cup SwitchTags

Prompt_Default == "You are Hanuman. Be concise, wise, and helpful. Use 1 sentence."
Prompt_Joke    == "You are Hanuman. Be concise, wise, and helpful. Use 1 sentence. Tell a joke."
Prompt_Search  == "You are Hanuman. Be concise, wise, and helpful. Use 1 sentence. Search and answer."

Str_Exception == <<"[", "E", "r", "r", "n", "o", " ", "2", "]">>

\* every transcript a speech-to-text call can return
\* the longest text identify_command is given, in words of IdWords
MaxWords == 2

\* pieces of text: trigger phrases in either case, near misses, words
\* unlike any trigger phrase, white space
IdWords ==
    { <<"h", "a", "n", "u", "m", "a", "n">>,
      <<"S", "T", "O", "P">>,
      <<"B", "y", "e">>,
      <<"j", "o", "k", "e">>,
      <<"p", "l", "a", "y">>,
      <<"s", "o", "n", "g">>,
      <<"u092C", "u0902", "u0926">>,
      <<"h", "a", "n", "u", "m", "n">>,
      <<"s", "e", "r", "c", "h">>,
      <<"s", "o">>,
      <<"e", "x", "i">>,
      <<"u", "h">>,
      <<"o", "h", " ", "n", "o">>,
      <<" ">>,
      <<"x">> }

RECURSIVE Concat(_)
Concat(ws) == IF ws = <<>> THEN <<>> ELSE Head(ws) \o Concat(Tail(ws))

\* the texts identify_command is called on
IdTexts == {Concat(ws) : ws \in UNION {[1..n -> IdWords] : n \in 0..MaxWords}}

Transcripts ==
    {<<>>} \cup {Strip(Clips[c][m]) : c \in 1..Len(Clips), m \in Models}

\* identify_command(t)[1] for every transcript t
CommandOf == [t \in Transcripts |-> identify_command(t)[1]]

(* ------------------------------ state --------------------------------- *)

VARIABLES
    GROQ_API_KEY,        \* line 32: TRUE iff the credential is set
    ELEVENLABS_API_KEY,  \* line 33: TRUE iff the credential is set
    user_state,          \* line 195: the global session record
    now,                 \* int(time.time())
    audio_dir,           \* AUDIO_DIR: path (the timestamp in its name) -> recording
    pc,                  \* where each request is in upload()
    path,                \* upload: local path
    futures,             \* transcribe_smart: future_turbo, future_large
    ret,                 \* transcribe_smart: the value being returned
    text,                \* upload: local text
    mode,                \* process_input: local mode
    sys_prompt,          \* process_input: the prompt handed to chat_llm
    reply,               \* upload: local reply
    response,            \* what the client receives
    trace,               \* calls and returns of the request, in order
    workers,             \* how many requests the server handles at a time
    uploadable,          \* the recordings the clients upload
    id_text,             \* identify_command: parameter text
    id_result            \* identify_command: the pair it returned

vars == <<GROQ_API_KEY, ELEVENLABS_API_KEY, user_state, now, audio_dir, pc,
          path, futures, ret, text, mode, sys_prompt, reply, response, trace,
          workers, uploadable, id_text, id_result>>

\* identify_command has not returned
NotCalled == <<"not called", ScoreZero>>

NoFile == [owner |-> "nobody", clip |-> 0]

NoFuture == [state |-> "unset", text |-> <<>>, ok |-> TRUE]
Running  == [state |-> "running", text |-> <<>>, ok |-> TRUE]
Done(t)  == [state |-> "done", text |-> t, ok |-> TRUE]
Failed(t) == [state |-> "done", text |-> t, ok |-> FALSE]

NoAudio == [provider |-> "null", ts |-> 0]

\* f"/audio/{provider}_{int(time.time())}.mp3"
AudioUrl(provider, ts) == [provider |-> provider, ts |-> ts]

NoResponse == [kind |-> "pending", code |-> 0, error |-> None, status |-> "",
               text |-> None, reply |-> None, audio |-> NoAudio]

\* jsonify({"error": e})  /  jsonify({"error": "No audio"}), 400
JsonError(code, e) == [NoResponse EXCEPT !.kind = "json", !.code = code, !.error = e]

\* jsonify({"status": "ignored"})
JsonIgnored == [NoResponse EXCEPT !.kind = "json", !.code = 200, !.status = "ignored"]

\* jsonify({"text": text, "reply": reply, "audio": audio_url})
JsonReply(t, r, a) == [NoResponse EXCEPT !.kind = "json", !.code = 200,
                                         !.text = t, !.reply = r, !.audio = a]

\* an exception that leaves the view function: the framework's error page
ServerError == [NoResponse EXCEPT !.kind = "error_page", !.code = 500]

Boot ==
    /\ GROQ_API_KEY \in BOOLEAN
    /\ ELEVENLABS_API_KEY \in BOOLEAN
    /\ user_state = [mode |-> "idle"]
    /\ now = 0
    /\ audio_dir = [p \in 0..MaxTime |-> NoFile]
    /\ pc = [r \in Requests |-> "free"]
    /\ path = [r \in Requests |-> 0]
    /\ futures = [r \in Requests |-> [m \in Models |-> NoFuture]]
    /\ ret = [r \in Requests |-> None]
    /\ text = [r \in Requests |-> None]
    /\ mode = [r \in Requests |-> "idle"]
    /\ sys_prompt = [r \in Requests |-> ""]
    /\ reply = [r \in Requests |-> None]
    /\ response = [r \in Requests |-> NoResponse]
    /\ trace = [r \in Requests |-> <<>>]

\* several users at once: the threaded server handles their uploads concurrently
Init ==
    /\ Boot
    /\ workers = Cardinality(Requests)
    /\ uploadable = ConcurrentClips
    /\ id_text = <<>>
    /\ id_result = NotCalled

\* the single user of the browser page: one upload at a time (the page
\* awaits the response before it records again)
InitSingleUser ==
    /\ Boot
    /\ workers = 1
    /\ uploadable = 1..Len(Clips)
    /\ id_text = <<>>
    /\ id_result = NotCalled

\* identify_command on its own: one call on any of the texts, no uploads
InitIdentify ==
    /\ Boot
    /\ GROQ_API_KEY /\ ELEVENLABS_API_KEY
    /\ workers = 0
    /\ uploadable = {}
    /\ id_text \in IdTexts
    /\ id_result = NotCalled

Config == <<GROQ_API_KEY, ELEVENLABS_API_KEY, workers, uploadable,
            id_text, id_result>>

(* --------------------------- upload, part 1 --------------------------- *)

\* lines 408-413: reject a request without audio, else save the recording
Upload(r) ==
    /\ pc[r] = "free"
    /\ Cardinality({q \in Requests : pc[q] # "free"}) < workers
    /\ \/ /\ response' = [response EXCEPT ![r] = JsonError(400, Str_NoAudio)]
          /\ pc' = [pc EXCEPT ![r] = "done"]
          /\ UNCHANGED <<path, audio_dir>>
       \/ \E c \in uploadable :
             /\ path' = [path EXCEPT ![r] = now]
             /\ audio_dir' = [audio_dir EXCEPT ![now] = [owner |-> r, clip |-> c]]
             /\ pc' = [pc EXCEPT ![r] = "transcribe"]
             /\ UNCHANGED response
       \/ \* f.save raises, outside the try block
          /\ path' = [path EXCEPT ![r] = now]
          /\ response' = [response EXCEPT ![r] = ServerError]
          /\ pc' = [pc EXCEPT ![r] = "done"]
          /\ UNCHANGED audio_dir
    /\ UNCHANGED <<Config, user_state, now, futures, ret, text, mode,
                   sys_prompt, reply, trace>>

(* -------------------------- transcribe_smart -------------------------- *)

\* lines 102-111: without the credential return ""; else submit both calls
TsStart(r) ==
    /\ pc[r] = "transcribe"
    /\ IF ~GROQ_API_KEY
       THEN /\ text' = [text EXCEPT ![r] = <<>>]
            /\ trace' = [trace EXCEPT ![r] = @ \o <<"ts_call", "ts_return">>]
            /\ pc' = [pc EXCEPT ![r] = "cleanup"]
            /\ UNCHANGED futures
       ELSE /\ futures' = [futures EXCEPT ![r] = [m \in Models |-> Running]]
            /\ trace' = [trace EXCEPT ![r] = @ \o <<"ts_call">>]
            /\ pc' = [pc EXCEPT ![r] = "ts_turbo"]
            /\ UNCHANGED text
    /\ UNCHANGED <<Config, user_state, now, audio_dir, path, ret, mode,
                   sys_prompt, reply, response>>

\* lines 94-97: strip the transcript and drop the known fillers
HallucinationFilter(raw) ==
    LET t == Strip(raw)
    IN  IF Lower(t) \in Fillers THEN <<>> ELSE t

\* lines 79-100 without the status test of line 93
whisper_result_AnyStatus(f, m, ok) ==
    IF f = NoFile THEN Failed(<<>>)
    ELSE IF ~ok THEN Failed(HallucinationFilter(Clips[f.clip][m]))
    ELSE Done(HallucinationFilter(Clips[f.clip][m]))

\* lines 79-100: the value of one call. A missing file (line 80), a
\* transport error or a timeout (lines 98-99) and a status other than 200
\* (line 93) all end at line 100; ok = FALSE stands for the last three.
whisper_result(f, m, ok) ==
    IF f = NoFile \/ ~ok THEN Failed(<<>>)
    ELSE Done(HallucinationFilter(Clips[f.clip][m]))

\* lines 78-100: one speech-to-text call, run by a worker of the pool
call_groq_whisper(r, m) ==
    /\ futures[r][m].state = "running"
    /\ \E ok \in BOOLEAN :
          futures' = [futures EXCEPT ![r][m] =
                         whisper_result(audio_dir[path[r]], m, ok)]
    /\ UNCHANGED <<Config, user_state, now, audio_dir, pc, path, ret, text,
                   mode, sys_prompt, reply, response, trace>>

\* the short circuit of line 118 left out
RecognizedNever(cmd) == FALSE

\* line 118: if cmd
Recognized(cmd) == cmd # NoCmd

\* lines 114-120: wait for turbo; return its text if it names a command
TsTurbo(r) ==
    /\ pc[r] = "ts_turbo"
    /\ futures[r]["turbo"].state = "done"
    /\ LET turbo_text == futures[r]["turbo"].text
           cmd == CommandOf[turbo_text]
       IN  IF Recognized(cmd)
           THEN /\ ret' = [ret EXCEPT ![r] = turbo_text]
                /\ trace' = [trace EXCEPT ![r] = @ \o <<"fast_match">>]
                /\ pc' = [pc EXCEPT ![r] = "ts_exit"]
           ELSE /\ pc' = [pc EXCEPT ![r] = "ts_large"]
                /\ UNCHANGED <<ret, trace>>
    /\ UNCHANGED <<Config, user_state, now, audio_dir, path, futures, text,
                   mode, sys_prompt, reply, response>>

\* line 127 with >= in place of >
LongerOrEqual(large_text, turbo_text) ==
    IF Len(large_text) >= Len(turbo_text) THEN large_text ELSE turbo_text

\* line 127
Longer(large_text, turbo_text) ==
    IF Len(large_text) > Len(turbo_text) THEN large_text ELSE turbo_text

\* lines 123-127: wait for large; return the longer transcript
TsLarge(r) ==
    /\ pc[r] = "ts_large"
    /\ futures[r]["large"].state = "done"
    /\ ret' = [ret EXCEPT ![r] =
                  Longer(futures[r]["large"].text, futures[r]["turbo"].text)]
    /\ pc' = [pc EXCEPT ![r] = "ts_exit"]
    /\ UNCHANGED <<Config, user_state, now, audio_dir, path, futures, text,
                   mode, sys_prompt, reply, response, trace>>

\* line 108: leaving the with block runs executor.shutdown(wait=True),
\* which joins both workers; only then does the caller get the value
TsExit(r) ==
    /\ pc[r] = "ts_exit"
    /\ \A m \in Models : futures[r][m].state = "done"
    /\ text' = [text EXCEPT ![r] = ret[r]]
    /\ ret' = [ret EXCEPT ![r] = None]
    /\ futures' = [futures EXCEPT ![r] = [m \in Models |-> NoFuture]]
    /\ trace' = [trace EXCEPT ![r] = @ \o <<"ts_return">>]
    /\ pc' = [pc EXCEPT ![r] = "cleanup"]
    /\ UNCHANGED <<Config, user_state, now, audio_dir, path, mode,
                   sys_prompt, reply, response>>

(* --------------------------- upload, part 2 --------------------------- *)

\* lines 423-427: no transcript, no dispatch
CheckText(r) ==
    IF ~Truthy(text[r])
    THEN /\ response' = [response EXCEPT ![r] = JsonIgnored]
         /\ pc' = [pc EXCEPT ![r] = "done"]
    ELSE /\ pc' = [pc EXCEPT ![r] = "process_input"]
         /\ UNCHANGED response

\* line 421, first half: path.exists(); without the file, on to lines 423-427
CleanupExists(r) ==
    /\ pc[r] = "cleanup"
    /\ IF audio_dir[path[r]] # NoFile
       THEN /\ pc' = [pc EXCEPT ![r] = "unlink"]
            /\ UNCHANGED response
       ELSE CheckText(r)
    /\ UNCHANGED <<Config, user_state, now, audio_dir, path, futures, ret,
                   text, mode, sys_prompt, reply, trace>>

\* line 421, second half: path.unlink(), then lines 423-427; a missing file
\* raises FileNotFoundError, which the handler at lines 439-441 reports
CleanupUnlink(r) ==
    /\ pc[r] = "unlink"
    /\ IF audio_dir[path[r]] # NoFile
       THEN /\ audio_dir' = [audio_dir EXCEPT ![path[r]] = NoFile]
            /\ CheckText(r)
       ELSE /\ response' = [response EXCEPT ![r] = JsonError(200, Str_Exception)]
            /\ pc' = [pc EXCEPT ![r] = "done"]
            /\ UNCHANGED audio_dir
    /\ UNCHANGED <<Config, user_state, now, path, futures, ret, text, mode,
                   sys_prompt, reply, trace>>

(* ---------------------------- process_input --------------------------- *)

\* line 198: mode = user_state["mode"]
PiRead(r) ==
    /\ pc[r] = "process_input"
    /\ mode' = [mode EXCEPT ![r] = user_state.mode]
    /\ trace' = [trace EXCEPT ![r] = @ \o <<"pi_call">>]
    /\ pc' = [pc EXCEPT ![r] = "pi_dispatch"]
    /\ UNCHANGED <<Config, user_state, now, audio_dir, path, futures, ret,
                   text, sys_prompt, reply, response>>

\* lines 202-213 with the idle test of line 209 ahead of the global commands
ModeAfterIdleFirst(current, local_mode, cmd) ==
    IF local_mode = "idle" THEN current
    ELSE IF cmd = "exit" THEN "idle"
    ELSE IF cmd = "wake" THEN "active"
    ELSE IF cmd \in SwitchTags THEN cmd
    ELSE current

\* lines 202-213 with the mode switch of lines 212-213 ahead of line 209
ModeAfterSwitchFirst(current, local_mode, cmd) ==
    IF cmd = "exit" THEN "idle"
    ELSE IF cmd = "wake" THEN "active"
    ELSE IF cmd \in SwitchTags THEN cmd
    ELSE current

\* lines 202-213 with line 209 storing the mode it read before it returns
ModeAfterStale(current, local_mode, cmd) ==
    IF cmd = "exit" THEN "idle"
    ELSE IF cmd = "wake" THEN "active"
    ELSE IF local_mode = "idle" THEN local_mode
    ELSE IF cmd \in SwitchTags THEN cmd
    ELSE current

\* lines 202-213: the value process_input leaves in user_state["mode"]
ModeAfter(current, local_mode, cmd) ==
    IF cmd = "exit" THEN "idle"
    ELSE IF cmd = "wake" THEN "active"
    ELSE IF local_mode = "idle" THEN current
    ELSE IF cmd \in SwitchTags THEN cmd
    ELSE current

\* lines 202-214: does process_input return without the language model?
AnswersDirectly(local_mode, cmd) ==
    cmd \in {"exit", "wake"} \/ local_mode = "idle" \/ cmd \in SwitchTags

\* lines 202-214 with the tag itself as the announcement of line 214
DirectReplyPlainTag(local_mode, cmd) ==
    IF cmd = "exit" THEN Str_Stopping
    ELSE IF cmd = "wake" THEN Str_Greeting
    ELSE IF local_mode = "idle" THEN None
    ELSE TagChars[cmd] \o Str_Mode

\* lines 202-214: the reply of a global command, of idle, of a mode switch
DirectReply(local_mode, cmd) ==
    IF cmd = "exit" THEN Str_Stopping
    ELSE IF cmd = "wake" THEN Str_Greeting
    ELSE IF local_mode = "idle" THEN None
    ELSE Capitalize(TagChars[cmd]) \o Str_Mode

\* lines 217-223: the system prompt of the mode
PromptOf(local_mode) ==
    IF local_mode = "aagya" THEN Prompt_Default
    ELSE IF local_mode = "hasya" THEN Prompt_Joke
    ELSE IF local_mode = "khoj" THEN Prompt_Search
    ELSE Prompt_Default

\* lines 431-433 without the test of line 431
CheckReplyAlwaysSpeaks(r, rep) ==
    /\ pc' = [pc EXCEPT ![r] = "tts"]
    /\ UNCHANGED response

\* lines 431-433: no reply, no synthesis
CheckReply(r, rep) ==
    IF ~Truthy(rep)
    THEN /\ response' = [response EXCEPT ![r] = JsonIgnored]
         /\ pc' = [pc EXCEPT ![r] = "done"]
    ELSE /\ pc' = [pc EXCEPT ![r] = "tts"]
         /\ UNCHANGED response

\* lines 199-223 up to the call of chat_llm, and on return lines 431-433
PiDispatch(r) ==
    /\ pc[r] = "pi_dispatch"
    /\ LET cmd == CommandOf[text[r]]
       IN  IF AnswersDirectly(mode[r], cmd)
           THEN /\ user_state' = [user_state EXCEPT
                                     !.mode = ModeAfter(@, mode[r], cmd)]
                /\ reply' = [reply EXCEPT ![r] = DirectReply(mode[r], cmd)]
                /\ trace' = [trace EXCEPT ![r] = @ \o <<"pi_return">>]
                /\ CheckReply(r, DirectReply(mode[r], cmd))
                /\ UNCHANGED sys_prompt
           ELSE /\ sys_prompt' = [sys_prompt EXCEPT ![r] = PromptOf(mode[r])]
                /\ pc' = [pc EXCEPT ![r] = "chat_llm"]
                /\ UNCHANGED <<user_state, reply, trace, response>>
    /\ UNCHANGED <<Config, now, audio_dir, path, futures, ret, text, mode>>

\* lines 181-193: what the request to the language model can come to: an
\* answer with some content, or any failure (transport, status, JSON shape)
LLMOutcomes ==
    {[ok |-> TRUE, content |-> content] : content \in LLMContents}
        \cup {[ok |-> FALSE, content |-> <<>>]}

\* lines 191-193 with the failure handed on as no reply
chat_llm_result_NoFallback(outcome) ==
    IF outcome.ok THEN Strip(outcome.content) ELSE None

\* lines 191-193: the answer, stripped, or the fixed string on any failure
chat_llm_result(outcome) ==
    IF outcome.ok THEN Strip(outcome.content) ELSE Str_Offline

\* lines 179-193: one request to the language model; then process_input
\* returns its result and upload runs lines 431-433
chat_llm(r) ==
    /\ pc[r] = "chat_llm"
    /\ \E outcome \in LLMOutcomes :
          /\ reply' = [reply EXCEPT ![r] = chat_llm_result(outcome)]
          /\ CheckReply(r, chat_llm_result(outcome))
          /\ trace' = [trace EXCEPT ![r] =
                          @ \o <<"llm">>
                            \o (IF outcome.ok THEN <<>> ELSE <<"llm_fail">>)
                            \o <<"pi_return">>]
    /\ UNCHANGED <<Config, user_state, now, audio_dir, path, futures, ret,
                   text, mode, sys_prompt>>

(* ----------------------------- generate_tts --------------------------- *)

\* the trace entry of a provider's call and of what the provider did
Attempt(provider, succeeded) ==
    IF succeeded THEN provider \o "_ok" ELSE provider \o "_fail"

\* what can happen to the primary provider's call
ElevenOutcomes ==
    IF ~ELEVENLABS_API_KEY THEN {"no_key"}
    ELSE {"ok", "bad_status", "exception"}

\* lines 130-156 without the status test of line 145
generate_tts_elevenlabs_AnyStatus(outcome, ts) ==
    IF outcome \in {"ok", "bad_status"} THEN AudioUrl("eleven", ts) ELSE NoAudio

\* lines 130-156: a reference to the written file on success, else None
generate_tts_elevenlabs(outcome, ts) ==
    IF outcome = "ok" THEN AudioUrl("eleven", ts) ELSE NoAudio

\* lines 164-176 with the return of line 172 after the try statement
generate_tts_edge_AlwaysUrl(saved, ts) == AudioUrl("edge", ts)

\* lines 164-176: a reference to the written file on success, else None
generate_tts_edge(saved, ts) ==
    IF saved THEN AudioUrl("edge", ts) ELSE NoAudio

\* lines 160-161 and 437: try the primary provider; answer if it produced audio
TtsEleven(r) ==
    /\ pc[r] = "tts"
    /\ \E outcome \in ElevenOutcomes :
          LET audio_url == generate_tts_elevenlabs(outcome, now)
          IN  IF audio_url # NoAudio
              THEN /\ response' = [response EXCEPT ![r] =
                                      JsonReply(text[r], reply[r], audio_url)]
                   /\ trace' = [trace EXCEPT ![r] =
                                   @ \o <<"tts_call", Attempt("eleven", outcome = "ok"),
                                          "tts_return">>]
                   /\ pc' = [pc EXCEPT ![r] = "done"]
              ELSE /\ trace' = [trace EXCEPT ![r] =
                                   @ \o <<"tts_call", Attempt("eleven", outcome = "ok")>>]
                   /\ pc' = [pc EXCEPT ![r] = "tts_edge"]
                   /\ UNCHANGED response
    /\ UNCHANGED <<Config, user_state, now, audio_dir, path, futures, ret,
                   text, mode, sys_prompt, reply>>

\* lines 164-176 and 437: the fallback provider; answer with what it produced
TtsEdge(r) ==
    /\ pc[r] = "tts_edge"
    /\ \E saved \in BOOLEAN :
          /\ response' = [response EXCEPT ![r] =
                             JsonReply(text[r], reply[r], generate_tts_edge(saved, now))]
          /\ trace' = [trace EXCEPT ![r] = @ \o <<Attempt("edge", saved), "tts_return">>]
    /\ pc' = [pc EXCEPT ![r] = "done"]
    /\ UNCHANGED <<Config, user_state, now, audio_dir, path, futures, ret,
                   text, mode, sys_prompt, reply>>

(* ------------------------------ environment --------------------------- *)

\* the response has been sent; the thread serves the next request
Finish(r) ==
    /\ pc[r] = "done"
    /\ pc' = [pc EXCEPT ![r] = "free"]
    /\ path' = [path EXCEPT ![r] = 0]
    /\ text' = [text EXCEPT ![r] = None]
    /\ mode' = [mode EXCEPT ![r] = "idle"]
    /\ sys_prompt' = [sys_prompt EXCEPT ![r] = ""]
    /\ reply' = [reply EXCEPT ![r] = None]
    /\ response' = [response EXCEPT ![r] = NoResponse]
    /\ trace' = [trace EXCEPT ![r] = <<>>]
    /\ UNCHANGED <<Config, user_state, now, audio_dir, futures, ret>>

\* a second passes
Tick ==
    /\ now < MaxTime
    /\ now' = now + 1
    /\ UNCHANGED <<Config, user_state, audio_dir, pc, path, futures, ret,
                   text, mode, sys_prompt, reply, response, trace>>

Next ==
    \/ \E r \in Requests : Upload(r)
    \/ \E r \in Requests : TsStart(r)
    \/ \E r \in Requests : \E m \in Models : call_groq_whisper(r, m)
    \/ \E r \in Requests : TsTurbo(r)
    \/ \E r \in Requests : TsLarge(r)
    \/ \E r \in Requests : TsExit(r)
    \/ \E r \in Requests : CleanupExists(r)
    \/ \E r \in Requests : CleanupUnlink(r)
    \/ \E r \in Requests : PiRead(r)
    \/ \E r \in Requests : PiDispatch(r)
    \/ \E r \in Requests : chat_llm(r)
    \/ \E r \in Requests : TtsEleven(r)
    \/ \E r \in Requests : TtsEdge(r)
    \/ \E r \in Requests : Finish(r)
    \/ Tick

Spec == Init /\ [][Next]_vars

\* lines 57-75: one call of identify_command
Identify ==
    /\ id_result = NotCalled
    /\ id_result' = identify_command(id_text)
    /\ UNCHANGED <<GROQ_API_KEY, ELEVENLABS_API_KEY, workers, uploadable,
                   id_text, user_state, now, audio_dir, pc, path, futures,
                   ret, text, mode, sys_prompt, reply, response, trace>>

SpecIdentify == InitIdentify /\ [][Identify]_vars

SpecSingleUser == InitSingleUser /\ [][Next]_vars

(* ------------------------------ properties ---------------------------- *)

\* the request has this entry in its trace
Has(r, e) == \E i \in 1..Len(trace[r]) : trace[r][i] = e

\* how often the request has this entry in its trace
Count(r, e) == Cardinality({i \in 1..Len(trace[r]) : trace[r][i] = e})

\* process_input takes its decision for request r in this step
Dispatches(r) == pc[r] = "pi_dispatch" /\ pc'[r] # "pi_dispatch"

\* transcribe_smart hands its value to upload in this step
Returns(r) == pc[r] = "ts_exit" /\ pc'[r] = "cleanup"

\* C1: whatever the mode, a text recognized as exit leaves the mode idle with
\* reply "Stopping.", and a text recognized as wake leaves the mode active
\* with the greeting; so a repeated command gives the same mode and reply.
C1_ExitWakeFromAnyMode ==
    [][\A r \in Requests :
          Dispatches(r) =>
              /\ CommandOf[text[r]] = "exit" =>
                     user_state'.mode = "idle" /\ reply'[r] = Str_Stopping
              /\ CommandOf[text[r]] = "wake" =>
                     user_state'.mode = "active" /\ reply'[r] = Str_Greeting]_vars

\* wake was dispatched while the mode was already active, and again gave
\* mode active and the greeting
C1_Witness ==
    \E r \in Requests :
        /\ Has(r, "pi_return")
        /\ CommandOf[text[r]] = "wake"
        /\ mode[r] = "active"
        /\ user_state.mode = "active"
        /\ reply[r] = Str_Greeting

\* C2: when the turbo transcript names a command, transcribe_smart returns
\* exactly the turbo transcript, whatever the large transcript is.
C2_TurboCommandWins ==
    [][\A r \in Requests :
          (Returns(r) /\ CommandOf[futures[r]["turbo"].text] # NoCmd) =>
              text'[r] = futures[r]["turbo"].text]_vars

\* the turbo transcript named a command and is being returned although the
\* large transcript, already there, is longer and different
C2_Witness ==
    \E r \in Requests :
        /\ pc[r] = "ts_exit"
        /\ CommandOf[futures[r]["turbo"].text] # NoCmd
        /\ futures[r]["large"].state = "done"
        /\ Len(futures[r]["large"].text) > Len(futures[r]["turbo"].text)
        /\ ret[r] = futures[r]["turbo"].text

\* neither transcript of the request names a command
NoCommandHeard(r) ==
    /\ CommandOf[futures[r]["turbo"].text] = NoCmd
    /\ CommandOf[futures[r]["large"].text] = NoCmd

\* C3 as stated: with no command in either transcript the longer one is
\* returned, and on equal lengths the large one.
C3_TiesToLarge ==
    [][\A r \in Requests :
          (Returns(r) /\ NoCommandHeard(r)) =>
              LET t == futures[r]["turbo"].text
                  l == futures[r]["large"].text
              IN  /\ Len(l) > Len(t) => text'[r] = l
                  /\ Len(l) < Len(t) => text'[r] = t
                  /\ Len(l) = Len(t) => text'[r] = l]_vars

\* C3 amended: with no command in either transcript the longer one is
\* returned, and on equal lengths the turbo one.
C3_TiesToTurbo ==
    [][\A r \in Requests :
          (Returns(r) /\ NoCommandHeard(r)) =>
              LET t == futures[r]["turbo"].text
                  l == futures[r]["large"].text
              IN  /\ Len(l) > Len(t) => text'[r] = l
                  /\ Len(l) < Len(t) => text'[r] = t
                  /\ Len(l) = Len(t) => text'[r] = t]_vars

\* two different transcripts of equal length, neither naming a command:
\* the turbo one is being returned
C3_Witness ==
    \E r \in Requests :
        /\ pc[r] = "ts_exit"
        /\ NoCommandHeard(r)
        /\ Len(futures[r]["large"].text) = Len(futures[r]["turbo"].text)
        /\ futures[r]["large"].text # futures[r]["turbo"].text
        /\ ret[r] = futures[r]["turbo"].text

\* C4 as stated: once the turbo transcript names a command, transcribe_smart
\* returns without waiting for the large call, so a request is never held at
\* the return of the turbo transcript while its large call is still running.
C4_ReturnsWithoutWaiting ==
    \A r \in Requests :
        ~(/\ pc[r] = "ts_exit"
          /\ Has(r, "fast_match")
          /\ futures[r]["large"].state = "running")

\* the request tried this provider
Tried(r, provider) ==
    Has(r, Attempt(provider, TRUE)) \/ Has(r, Attempt(provider, FALSE))

\* C5: the secondary provider is tried exactly when the primary failed, each
\* provider at most once per call, and when the primary fails and the
\* secondary succeeds the audio reference is the secondary's.
C5_FallbackChain ==
    \A r \in Requests :
        /\ Count(r, "eleven_ok") + Count(r, "eleven_fail") <= 1
        /\ Count(r, "edge_ok") + Count(r, "edge_fail") <= 1
        /\ Tried(r, "edge") => Has(r, "eleven_fail")
        /\ (Has(r, "tts_return") /\ Has(r, "eleven_fail")) => Tried(r, "edge")
        /\ (Has(r, "tts_return") /\ Has(r, "eleven_fail") /\ Has(r, "edge_ok")) =>
               response[r].audio.provider = "edge"

\* the primary failed with its credential set, the secondary succeeded, and
\* the response refers to the secondary's file
C5_Witness ==
    \E r \in Requests :
        /\ ELEVENLABS_API_KEY
        /\ Has(r, "eleven_fail")
        /\ Has(r, "edge_ok")
        /\ Has(r, "tts_return")
        /\ response[r].audio.provider = "edge"

Silent(r) == GROQ_API_KEY /\ Has(r, "ts_return") /\ text[r] = <<>>

\* C7 as stated: when both speech-to-text calls give the empty transcript,
\* the answer is status "ignored" with no reply and no audio, and neither
\* process_input nor generate_tts is called for the request.
C7_SilenceIgnored ==
    \A r \in Requests :
        Silent(r) =>
            /\ ~Has(r, "pi_call")
            /\ ~Has(r, "tts_call")
            /\ pc[r] = "done" => response[r] = JsonIgnored

\* where the entry stands in the trace of the request
Pos(r, e) == CHOOSE i \in 1..Len(trace[r]) : trace[r][i] = e

\* entry a stands in the trace of the request, before entry b
Before(r, a, b) == Has(r, a) /\ Pos(r, a) < Pos(r, b)

\* C8: in a request transcribe_smart has returned before process_input is
\* called, process_input has returned before generate_tts is called, each of
\* the two is called at most once, and generate_tts only with a reply.
C8_ThreeStages ==
    \A r \in Requests :
        /\ \A e \in {"ts_call", "ts_return", "pi_call", "pi_return",
                      "tts_call", "tts_return"} : Count(r, e) <= 1
        /\ Has(r, "ts_return") => Before(r, "ts_call", "ts_return")
        /\ Has(r, "pi_call") => Before(r, "ts_return", "pi_call")
        /\ Has(r, "pi_return") => Before(r, "pi_call", "pi_return")
        /\ Has(r, "tts_call") => Before(r, "pi_return", "tts_call")
        /\ Has(r, "tts_return") => Before(r, "tts_call", "tts_return")
        /\ Has(r, "tts_call") => Truthy(reply[r])
        /\ pc[r] \in {"pi_dispatch", "chat_llm"} => ~Has(r, "pi_return")
        /\ pc[r] \in {"tts", "tts_edge"} =>
               Has(r, "pi_return") /\ ~Has(r, "tts_return")

\* a request went through the three stages, the language model included
C8_Witness ==
    \E r \in Requests :
        /\ pc[r] = "done"
        /\ Has(r, "fast_match") = FALSE
        /\ Has(r, "llm")
        /\ Has(r, "tts_return")

\* C9 as stated: every request ends with a JSON response, whatever fails.
C9_AlwaysJson ==
    \A r \in Requests : pc[r] = "done" => response[r].kind = "json"

\* C10: the mode starts idle, is always one of the seven modes, and changes
\* only in a step of process_input on a recognized command; a request whose
\* text names no command leaves it as it is.
C10_ModeOnlyByDispatch ==
    /\ user_state.mode = "idle"
    /\ [](user_state.mode \in Modes)
    /\ [][user_state' # user_state =>
              \E r \in Requests :
                  Dispatches(r) /\ CommandOf[text[r]] # NoCmd]_vars
    /\ [][\A r \in Requests :
              (Dispatches(r) /\ CommandOf[text[r]] = NoCmd) =>
                  user_state' = user_state]_vars

\* a request that read the mode idle is about to dispatch a text with no
\* command while another request, still running, has made the mode active
C10_Witness ==
    \E r, q \in Requests :
        /\ r # q
        /\ pc[r] = "pi_dispatch"
        /\ CommandOf[text[r]] = NoCmd
        /\ mode[r] = "idle"
        /\ user_state.mode = "active"
        /\ Has(q, "pi_return")
        /\ CommandOf[text[q]] = "wake"

\* C11: when process_input read the mode idle and the mode is idle, a text
\* whose tag is neither wake nor exit (a mode-switch tag included) leaves the
\* mode idle, gives no reply, does not call the language model, and the
\* request answers status "ignored" without synthesis.
C11_IdleIgnores ==
    [][\A r \in Requests :
          (/\ Dispatches(r)
           /\ mode[r] = "idle"
           /\ user_state.mode = "idle"
           /\ CommandOf[text[r]] \notin {"wake", "exit"}) =>
              /\ user_state'.mode = "idle"
              /\ reply'[r] = None
              /\ pc'[r] = "done"
              /\ response'[r] = JsonIgnored
              /\ trace'[r] = trace[r] \o <<"pi_return">>]_vars

\* a text recognized as hasya was dispatched in mode idle: the mode is
\* still idle and the request was ignored without language model or audio
C11_Witness ==
    \E r \in Requests :
        /\ pc[r] = "done"
        /\ Has(r, "pi_return")
        /\ mode[r] = "idle"
        /\ CommandOf[text[r]] = "hasya"
        /\ user_state.mode = "idle"
        /\ response[r] = JsonIgnored
        /\ ~Has(r, "llm") /\ ~Has(r, "tts_call")

NonIdle == Modes \ {"idle"}

\* the announcement of each mode-switch tag, as the client reads it
Announcement ==
    [ aagya     |-> <<"A", "a", "g", "y", "a", " ", "m", "o", "d", "e", ".">>,
      hasya     |-> <<"H", "a", "s", "y", "a", " ", "m", "o", "d", "e", ".">>,
      yudha     |-> <<"Y", "u", "d", "h", "a", " ", "m", "o", "d", "e", ".">>,
      gandharva |-> <<"G", "a", "n", "d", "h", "a", "r", "v", "a", " ", "m", "o", "d", "e", ".">>,
      khoj      |-> <<"K", "h", "o", "j", " ", "m", "o", "d", "e", ".">> ]

\* a mode-switch tag, read in a non-idle mode, is dispatched in this step
Switches(r) ==
    Dispatches(r) /\ mode[r] # "idle" /\ CommandOf[text[r]] \in SwitchTags

\* in a non-idle mode, a mode-switch tag sets the mode to the tag and
\* returns its announcement without the language model
SwitchStep ==
    \A r \in Requests :
        Switches(r) =>
            /\ user_state'.mode = CommandOf[text[r]]
            /\ reply'[r] = Announcement[CommandOf[text[r]]]
            /\ trace'[r] = trace[r] \o <<"pi_return">>
            /\ pc'[r] = "tts"

\* a request is about to dispatch in the non-idle mode it read
DispatchingNonIdle(r) == pc[r] = "pi_dispatch" /\ mode[r] # "idle"

\* C12 as stated: in a non-idle mode a mode-switch tag T sets the mode to T
\* and returns the announcement of T without the language model; every
\* non-idle mode (active included) is the result of such a step from every
\* other non-idle mode, and no mode is terminal.
C12_AllNonIdleBySwitch ==
    /\ [][SwitchStep]_vars
    /\ [](\A r \in Requests :
              DispatchingNonIdle(r) =>
                  \A n \in NonIdle \ {mode[r]} :
                      \E t \in Transcripts :
                          /\ CommandOf[t] \in SwitchTags
                          /\ ModeAfter(user_state.mode, mode[r], CommandOf[t]) = n)

\* C12 amended: as above, but the modes such a step leads to are the five
\* mode-switch tags; active is not among them. No mode is terminal: from
\* every mode some recognized command changes it.
C12_SwitchTagsBySwitch ==
    /\ [][SwitchStep]_vars
    /\ [](\A r \in Requests :
              DispatchingNonIdle(r) =>
                  /\ \A n \in SwitchTags \ {mode[r]} :
                         \E t \in Transcripts :
                             /\ CommandOf[t] \in SwitchTags
                             /\ ModeAfter(user_state.mode, mode[r], CommandOf[t]) = n
                  /\ \A t \in Transcripts :
                         CommandOf[t] \in SwitchTags =>
                             ModeAfter(user_state.mode, mode[r], CommandOf[t]) # "active")
    /\ [](\A r \in Requests :
              pc[r] = "pi_dispatch" =>
                  \E t \in Transcripts :
                      ModeAfter(user_state.mode, mode[r], CommandOf[t]) # user_state.mode)

\* the mode was khoj when the request read it, the text named gandharva,
\* and the mode is now gandharva with the announcement as the reply
C12_Witness ==
    \E r \in Requests :
        /\ Has(r, "pi_return")
        /\ mode[r] = "khoj"
        /\ CommandOf[text[r]] = "gandharva"
        /\ user_state.mode = "gandharva"
        /\ reply[r] = Announcement["gandharva"]
        /\ ~Has(r, "llm")

\* the system prompt of each non-idle mode
ExpectedPrompt ==
    [ active    |-> Prompt_Default,
      aagya     |-> Prompt_Default,
      hasya     |-> Prompt_Joke,
      yudha     |-> Prompt_Default,
      gandharva |-> Prompt_Default,
      khoj      |-> Prompt_Search ]

\* the request's call of chat_llm returns in this step
LLMReturns(r) == pc[r] = "chat_llm" /\ pc'[r] # "chat_llm"

\* C13: in a non-idle mode a text with no recognized tag goes to the language
\* model exactly once, with the prompt of the mode process_input read
\* (joke-biased in hasya, search-biased in khoj, the default in the others);
\* the mode is left as it is, and on a failure of the language model the
\* reply is "System offline." and the request goes on to synthesis.
C13_ChatDelegation ==
    /\ [][\A r \in Requests :
             /\ (Dispatches(r) /\ mode[r] # "idle" /\ CommandOf[text[r]] = NoCmd) =>
                    /\ pc'[r] = "chat_llm"
                    /\ sys_prompt'[r] = ExpectedPrompt[mode[r]]
                    /\ ~Has(r, "llm")
                    /\ user_state' = user_state
             /\ LLMReturns(r) =>
                    /\ sys_prompt[r] = ExpectedPrompt[mode[r]]
                    /\ Count(r, "llm")' = 1
                    /\ user_state' = user_state
                    /\ Has(r, "llm_fail")' =>
                           reply'[r] = Str_Offline /\ pc'[r] = "tts"]_vars
    /\ [](\A r \in Requests :
              /\ Count(r, "llm") <= 1
              /\ Has(r, "llm") => mode[r] # "idle" /\ CommandOf[text[r]] = NoCmd)

\* in mode hasya a text without a command went to the language model with
\* the joke prompt, the model failed, and the fixed reply is up for synthesis
C13_Witness ==
    \E r \in Requests :
        /\ pc[r] = "tts"
        /\ mode[r] = "hasya"
        /\ user_state.mode = "hasya"
        /\ CommandOf[text[r]] = NoCmd
        /\ sys_prompt[r] = Prompt_Joke
        /\ Count(r, "llm") = 1
        /\ Has(r, "llm_fail")
        /\ reply[r] = Str_Offline

\* what model m makes of the recording of request r when its call succeeds
Heard(r, m) == HallucinationFilter(Clips[audio_dir[path[r]].clip][m])

\* C14: a failed speech-to-text call counts as the empty transcript of its
\* model only and never leaves transcribe_smart as an error: turbo failed
\* and large gave a non-empty text -> the large text; large failed and turbo
\* succeeded -> the turbo text; both failed -> the empty string.
C14_SttFailureIsEmpty ==
    [][\A r \in Requests :
          Returns(r) =>
              LET turbo == futures[r]["turbo"]
                  large == futures[r]["large"]
              IN  /\ \A m \in Models :
                        /\ ~futures[r][m].ok => futures[r][m].text = <<>>
                        /\ (futures[r][m].ok /\ audio_dir[path[r]] # NoFile) =>
                               futures[r][m].text = Heard(r, m)
                  /\ (~turbo.ok /\ large.ok /\ large.text # <<>>) =>
                         text'[r] = large.text
                  /\ (~large.ok /\ turbo.ok) => text'[r] = turbo.text
                  /\ (~turbo.ok /\ ~large.ok) => text'[r] = <<>>
                  /\ response'[r] = NoResponse
                  /\ Has(r, "ts_return")']_vars

\* the turbo call failed, the large call heard the stop command, and the
\* large text is what transcribe_smart returned
C14_Witness ==
    \E r \in Requests :
        /\ pc[r] = "ts_exit"
        /\ ~futures[r]["turbo"].ok
        /\ futures[r]["large"].ok
        /\ futures[r]["large"].text = Heard(r, "large")
        /\ CommandOf[futures[r]["large"].text] = "exit"
        /\ ret[r] = futures[r]["large"].text

\* the tags in the order the vocabulary declares them
DeclaredOrder == <<"wake", "aagya", "hasya", "yudha", "gandharva", "khoj", "exit">>

\* phrase k occurs in text t, letter case set aside
ContainsIgnoringCase(k, t) ==
    \E i \in 0..(Len(t) - Len(k)) :
        \A j \in 1..Len(k) : LowerChar(t[i + j]) = k[j]

\* the tags with a trigger phrase in text t
TagsIn(t) ==
    {T \in DOMAIN VALID_COMMANDS :
        \E n \in 1..Len(VALID_COMMANDS[T]) :
            ContainsIgnoringCase(VALID_COMMANDS[T][n], t)}

\* the tag of S declared first
FirstDeclared(S) ==
    DeclaredOrder[CHOOSE i \in 1..Len(DeclaredOrder) :
                      /\ DeclaredOrder[i] \in S
                      /\ \A j \in 1..(i - 1) : DeclaredOrder[j] \notin S]

Identified == id_result # NotCalled

\* C15: a text with a trigger phrase of tag T and of no other tag gives
\* (T, 1.0); a text with trigger phrases of several tags gives the tag
\* declared first, with confidence 1.0.
C15_ExactPass ==
    Identified =>
        /\ \A T \in DOMAIN VALID_COMMANDS :
               TagsIn(id_text) = {T} => id_result = <<T, ScoreOne>>
        /\ Cardinality(TagsIn(id_text)) > 1 =>
               id_result = <<FirstDeclared(TagsIn(id_text)), ScoreOne>>

\* the text holds trigger phrases of hasya and of exit, exit's ahead of
\* hasya's and in capitals, and the answer is hasya
C15_Witness ==
    /\ Identified
    /\ TagsIn(id_text) = {"hasya", "exit"}
    /\ ContainsIgnoringCase(<<"s", "t", "o", "p">>, SubSeq(id_text, 1, 4))
    /\ id_text[1] = "S"
    /\ id_result = <<"hasya", ScoreOne>>

\* the ratio of the n-th trigger phrase to the normalized text
RatioOf(n, t) == Ratio(Keywords[n][2], Strip(Lower(t)))

\* two scores are the same number
ScoreEq(x, y) == x[1] * y[2] = y[1] * x[2]

\* the score exceeds 0.65 = 13/20
Exceeds065(x) == 20 * x[1] > 13 * x[2]

\* C16: (none, 0.0) for an empty or white-space text and for a text with no
\* exact match whose ratio to every trigger phrase is at most 0.65; a tag
\* from the fuzzy pass comes with the greatest ratio over all trigger
\* phrases, which exceeds 0.65 and belongs to the first phrase that attains
\* it; the tag is none exactly when the confidence is 0.0.
C16_FuzzyPass ==
    Identified =>
        LET N == 1..Len(Keywords)
        IN  /\ (\A i \in 1..Len(id_text) : id_text[i] = " ") =>
                   id_result = <<NoCmd, ScoreZero>>
            /\ (TagsIn(id_text) = {} /\ \A n \in N : ~Exceeds065(RatioOf(n, id_text))) =>
                   id_result = <<NoCmd, ScoreZero>>
            /\ (TagsIn(id_text) = {} /\ id_result[1] # NoCmd) =>
                   /\ Exceeds065(id_result[2])
                   /\ \A n \in N : ~ScoreGt(RatioOf(n, id_text), id_result[2])
                   /\ \E n \in N :
                          /\ Keywords[n][1] = id_result[1]
                          /\ ScoreEq(RatioOf(n, id_text), id_result[2])
                          /\ \A m \in 1..(n - 1) :
                                 ScoreGt(id_result[2], RatioOf(m, id_text))
            /\ id_result[1] = NoCmd <=> id_result[2] = ScoreZero

\* "so" is as close to "song" as to "stop", 2/3 each: the answer is
\* gandharva, declared ahead of exit, with 2/3
C16_Witness ==
    /\ Identified
    /\ id_text = <<"s", "o">>
    /\ TagsIn(id_text) = {}
    /\ id_result[1] = "gandharva"
    /\ ScoreEq(id_result[2], <<2, 3>>)
    /\ \E n \in 1..Len(Keywords) :
           Keywords[n][1] = "exit" /\ ScoreEq(RatioOf(n, id_text), <<2, 3>>)

\* C17: when at least one of the two transcripts of an upload holds a
\* recognized command, transcribe_smart returns a transcript that holds a
\* recognized command (the large one when only the large one has a command,
\* longer or not).
C17_CommandSurvives ==
    [][\A r \in Requests :
          Returns(r) =>
              LET turbo_text == futures[r]["turbo"].text
                  large_text == futures[r]["large"].text
              IN  /\ (\E m \in Models : CommandOf[futures[r][m].text] # NoCmd) =>
                         CommandOf[text'[r]] # NoCmd
                  /\ (CommandOf[turbo_text] = NoCmd /\ CommandOf[large_text] # NoCmd) =>
                         text'[r] = large_text]_vars

\* the speech-to-text call of model m for request r opens its file in this step
Reads(r, m) ==
    futures[r][m].state = "running" /\ futures'[r][m].state = "done"

\* transcribe_smart is about to run or has a call running for the request
Transcribing(r) ==
    pc[r] = "transcribe" \/ \E m \in Models : futures[r][m].state = "running"

\* C18: whatever the interleaving of two uploads, each speech-to-text call
\* of a request reads the recording this request saved, and no step (the
\* save or the cleanup of another request) replaces or deletes a recording
\* whose request is still transcribing it.
C18_OwnRecording ==
    [][\A r \in Requests :
          /\ \A m \in Models :
                 Reads(r, m) => audio_dir[path[r]].owner = r
          /\ (Transcribing(r) /\ audio_dir[path[r]].owner = r) =>
                 audio_dir'[path[r]] = audio_dir[path[r]]]_vars

\* text t holds a trigger phrase of the exit tag
SaysExit(t) ==
    \E n \in 1..Len(VALID_COMMANDS["exit"]) :
        ContainsIgnoringCase(VALID_COMMANDS["exit"][n], t)

\* what the speech-to-text service sends for model m on the request's recording
Raw(r, m) == Clips[audio_dir[path[r]].clip][m]

\* the call of model m read the request's own recording and the service
\* answered with a transcript that holds an exit trigger phrase
TranscribedExit(r, m) ==
    /\ audio_dir[path[r]].owner = r
    /\ futures[r][m].state = "done" /\ futures[r][m].ok
    /\ SaysExit(Raw(r, m))

\* C19: the hallucination filter never takes away an exit command a model
\* transcribed: a raw transcript with an exit trigger phrase (for one,
\* exactly "bye") still holds it after the filter, and when it is the turbo
\* transcript and the exit command is what it is recognized as,
\* transcribe_smart hands that exit command on to dispatch.
C19_ExitNotFiltered ==
    [][\A r \in Requests :
          /\ \A m \in Models :
                 (Reads(r, m) /\ TranscribedExit(r, m)') =>
                     SaysExit(futures'[r][m].text)
          /\ (/\ Returns(r)
              /\ TranscribedExit(r, "turbo")
              /\ identify_command(Raw(r, "turbo"))[1] = "exit") =>
                 /\ CommandOf[text'[r]] = "exit"
                 /\ pc'[r] = "cleanup"]_vars
====
